---- MODULE Spec2Model ----
(***************************************************************************)
(* Model of plot/plot.py: main() reads its two arguments, parse_data()     *)
(* loads, re-indexes, sorts and filters the solve records, save_plot()     *)
(* computes one 56-day rolling-mean series per weekday, sets the y axis    *)
(* from the 99th percentile and writes the figure.                         *)
(*                                                                         *)
(* Numbers: unix timestamps and durations are integers of seconds.  A      *)
(* missing value (pandas NaN) of an integer column is the sentinel NaN.    *)
(* A float result (a mean, a quantile, minutes) is an exact fraction       *)
(* <<numerator, denominator>>; <<0, 0>> is the float NaN.  Floating-point  *)
(* rounding is not modelled.                                               *)
(***************************************************************************)
EXTENDS Integers, Sequences, FiniteSets, TLC

VARIABLES
    pc,            \* where the run is: a label of main, parse_data or save_plot
    error,         \* the exception that left main uncaught, "" when none
    argv,          \* number of arguments given after the program name
    in_file,       \* rows of the file at the input path
    csv,           \* rows of the input file as read
    df,            \* the data frame of parse_data, then of save_plot
    DAYS,          \* save_plot: distinct weekdays
    Y_MAX,         \* save_plot: upper y bound, in minutes
    day_i,         \* save_plot: position of the loop in DAYS
    series,        \* lines drawn on the axes so far
    ylim,          \* y limits of the axes, <<>> until set
    minor_yticks,  \* minor ticks of the y axis
    stdout,        \* lines printed
    out_written,   \* the output file exists
    read_count,    \* calls of read_csv
    write_count    \* calls of savefig that wrote the file

vars == <<pc, error, argv, in_file, csv, df, DAYS, Y_MAX, day_i, series, ylim,
          minor_yticks, stdout, out_written, read_count, write_count>>

----------------------------------------------------------------------------
(* Bounds of the model *)
MaxRows == 3

(* Program constants *)
SecsPerDay == 86400
WeekSecs == 3600 * 24 * 7
WindowDays == 56
NaN == -1
NaNf == <<0, 0>>

(* Input values the rows of the CSV file are drawn from *)
T0 == 1000000
SolvedTimes == {T0, T0 + 10 * SecsPerDay, T0 + WindowDays * SecsPerDay}
Durations == {300, 600}
Weekdays == {"Mon", "Tue"}

CsvRow(solved, gap, dur, day, ch) ==
    [date |-> (solved - gap) \div SecsPerDay,
     opened_unix |-> solved - gap,
     solved_unix |-> solved,
     solve_time_secs |-> dur,
     weekday |-> day,
     cheated |-> ch]

(* clean rows: every solved time, both durations on Monday, one on Tuesday *)
CleanRows ==
    {CsvRow(s, 10, d, "Mon", FALSE) : s \in SolvedTimes, d \in Durations}
    \cup {CsvRow(s, 10, 300, "Tue", FALSE) : s \in SolvedTimes}

(* rows with something for the filter to act on *)
OddRows ==
    {CsvRow(T0, WeekSecs, 300, "Mon", FALSE),
     CsvRow(T0, 700000, 300, "Mon", FALSE),
     CsvRow(T0, 10, 300, "Mon", TRUE),
     CsvRow(T0, 10, NaN, "Mon", FALSE),
     CsvRow(T0, 700000, NaN, "Tue", TRUE)}

CsvRows == CleanRows \cup OddRows

SeqsUpTo(S, n) == UNION {[1..k -> S] : k \in 0..n}

CsvFiles == SeqsUpTo(CsvRows, MaxRows)

(* a smaller choice of rows: two weekdays, three solved times, a row the   *)
(* filter drops                                                            *)
FewRows ==
    {CsvRow(T0, 10, 300, "Mon", FALSE),
     CsvRow(T0 + 10 * SecsPerDay, 10, 300, "Tue", FALSE),
     CsvRow(T0 + WindowDays * SecsPerDay, 10, 600, "Mon", FALSE),
     CsvRow(T0, 10, 300, "Mon", TRUE)}

FewFiles == SeqsUpTo(FewRows, MaxRows)

----------------------------------------------------------------------------
(* Helpers on sequences and fractions *)

Range(s) == {s[i] : i \in DOMAIN s}

RECURSIVE SumSeq(_)
SumSeq(s) == IF s = <<>> THEN 0 ELSE Head(s) + SumSeq(Tail(s))

Column(d, f) == [i \in DOMAIN d |-> d[i][f]]

RatEq(a, b) == /\ (a[2] = 0) = (b[2] = 0)
               /\ a[1] * b[2] = b[1] * a[2]

(* pd.to_datetime(seconds, unit="s"): a calendar day and the second in it *)
to_datetime(secs) == <<secs \div SecsPerDay, secs % SecsPerDay>>

DtLess(a, b) == \/ a[1] < b[1]
                \/ a[1] = b[1] /\ a[2] < b[2]

DtLeq(a, b) == a = b \/ DtLess(a, b)

(* datetime minus a Timedelta of n days *)
DtMinusDays(a, n) == <<a[1] - n, a[2]>>

----------------------------------------------------------------------------
(* parse_data *)

LoadFrameInMinutes(rows) ==
    [i \in DOMAIN rows |->
        [opened_unix |-> rows[i].opened_unix,
         solved_unix |-> rows[i].solved_unix,
         solve_time_secs |-> rows[i].solve_time_secs \div 60,
         weekday |-> rows[i].weekday,
         cheated |-> rows[i].cheated,
         Solved_datetime |-> to_datetime(rows[i].solved_unix),
         index |-> to_datetime(rows[i].solved_unix)]]

(* read_csv(..., index_col="date"), then the "Solved datetime" column and  *)
(* the index replaced by it: the puzzle date is no longer in the frame     *)
LoadFrame(rows) ==
    [i \in DOMAIN rows |->
        [opened_unix |-> rows[i].opened_unix,
         solved_unix |-> rows[i].solved_unix,
         solve_time_secs |-> rows[i].solve_time_secs,
         weekday |-> rows[i].weekday,
         cheated |-> rows[i].cheated,
         Solved_datetime |-> to_datetime(rows[i].solved_unix),
         index |-> to_datetime(rows[i].solved_unix)]]

IsSortedByIndex(d) ==
    \A i \in 1..(Len(d) - 1) : DtLeq(d[i].index, d[i + 1].index)

sort_index_unsorted(d) == {d}

(* df.sort_index(): the default sort is not stable, so rows with equal     *)
(* index come out in any order                                             *)
sort_index(d) ==
    {e \in {[i \in DOMAIN d |-> d[p[i]]] : p \in Permutations(DOMAIN d)} :
        IsSortedByIndex(e)}

KeepWithinWeek(r) == /\ r.solved_unix - r.opened_unix <= WeekSecs
                     /\ r.cheated = FALSE
                     /\ r.solve_time_secs # NaN

Keep(r) == /\ r.solved_unix - r.opened_unix < WeekSecs
           /\ r.cheated = FALSE
           /\ r.solve_time_secs # NaN

FilterRows(d) == SelectSeq(d, Keep)

----------------------------------------------------------------------------
(* save_plot *)

unique_keep_all(col) == col

(* Series.unique(): the distinct values in order of first appearance *)
RECURSIVE unique(_)
unique(col) ==
    IF col = <<>> THEN <<>>
    ELSE LET rest == unique(SubSeq(col, 1, Len(col) - 1))
             last == col[Len(col)]
         IN  IF last \in Range(rest) THEN rest ELSE Append(rest, last)

RECURSIVE Insert(_, _)
Insert(x, s) ==
    IF s = <<>> THEN <<x>>
    ELSE IF x <= Head(s) THEN <<x>> \o s
    ELSE <<Head(s)>> \o Insert(x, Tail(s))

RECURSIVE SortInts(_)
SortInts(s) == IF s = <<>> THEN <<>> ELSE Insert(Head(s), SortInts(Tail(s)))

NotNull(col) == SelectSeq(col, LAMBDA x : x # NaN)

(* Series.quantile(0.99), linear interpolation between the two order       *)
(* statistics around position 0.99 * (n - 1); NaN on an empty column       *)
quantile99(col) ==
    LET v == SortInts(NotNull(col))
        n == Len(v)
        h == 99 * (n - 1)
        lo == h \div 100 + 1
        hi == IF lo < n THEN lo + 1 ELSE lo
    IN  IF n = 0 THEN NaNf
        ELSE <<100 * v[lo] + (h % 100) * (v[hi] - v[lo]), 100>>

(* a float divided by an integer *)
DivBy(q, k) == IF q[2] = 0 THEN NaNf ELSE <<q[1], q[2] * k>>

(* df[df["weekday"] == day] *)
DayRows(d, day) == SelectSeq(d, LAMBDA r : r.weekday = day)

YMaxOfFirstDay(d) ==
    IF d = <<>> THEN NaNf
    ELSE DivBy(quantile99(Column(DayRows(d, d[1].weekday), "solve_time_secs")),
               60)

YMaxOf(d) == DivBy(quantile99(Column(d, "solve_time_secs")), 60)

SetMin(S) == CHOOSE x \in S : \A y \in S : x <= y

RECURSIVE WindowStartClosed(_, _)
WindowStartClosed(s, i) ==
    IF i = 1 THEN 1
    ELSE LET start_bound == DtMinusDays(s[i].index, WindowDays)
             later == {j \in WindowStartClosed(s, i - 1)..(i - 1) :
                          DtLeq(start_bound, s[j].index)}
         IN  IF later = {} THEN i ELSE SetMin(later)

(* first row of the window of row i: the variable-window bounds of         *)
(* rolling("56D"), closed on the right, advance from the previous start to *)
(* the first row later than index[i] - 56 days                             *)
RECURSIVE WindowStart(_, _)
WindowStart(s, i) ==
    IF i = 1 THEN 1
    ELSE LET start_bound == DtMinusDays(s[i].index, WindowDays)
             later == {j \in WindowStart(s, i - 1)..(i - 1) :
                          DtLess(start_bound, s[j].index)}
         IN  IF later = {} THEN i ELSE SetMin(later)

(* the window of row i ends at row i itself *)
WindowEnd(s, i) == i

(* .rolling("56D").mean(): min_periods is 1 for an offset window *)
RollingMean(s, i) ==
    LET obs == NotNull(Column(SubSeq(s, WindowStart(s, i), WindowEnd(s, i)),
                              "solve_time_secs"))
    IN  IF obs = <<>> THEN NaNf ELSE <<SumSeq(obs), Len(obs)>>

(* the line of one weekday: (rolling_avg / 60.0).plot(label=day) *)
DaySeries(d, day) ==
    LET s == DayRows(d, day)
    IN  [label |-> day,
         points |-> [i \in DOMAIN s |->
                        [x |-> s[i].index, y |-> DivBy(RollingMean(s, i), 60)]]]

(* np.arange(0, Y_MAX + 1, 5) *)
arange5(ymax) ==
    {t \in 0..((ymax[1] + ymax[2]) \div ymax[2]) :
        t % 5 = 0 /\ t * ymax[2] < ymax[1] + ymax[2]}

----------------------------------------------------------------------------
(* main *)

MaxArgs == 2

ArgsMissingFirst(n) == n < 1

(* lines 79-82: argv[1] or argv[2] raises IndexError when it is missing *)
ArgsMissing(n) == n < 2

LoadFailureSwallowed == [pc |-> "sort_index", error |-> "ParserError"]

(* an exception of read_csv is caught nowhere: it leaves parse_data and main *)
LoadFailure == [pc |-> "raised", error |-> "ParserError"]

InitWith(files) ==
    /\ pc = "start"
    /\ error = ""
    /\ argv \in 0..MaxArgs
    /\ in_file \in files
    /\ csv = <<>>
    /\ df = <<>>
    /\ DAYS = <<>>
    /\ Y_MAX = NaNf
    /\ day_i = 1
    /\ series = <<>>
    /\ ylim = <<>>
    /\ minor_yticks = {}
    /\ stdout = <<>>
    /\ out_written = FALSE
    /\ read_count = 0
    /\ write_count = 0

Init == InitWith(CsvFiles)

FewInit == InitWith(FewFiles)

(* main, lines 77-88: a missing argument prints the usage and returns *)
main_args ==
    /\ pc = "start"
    /\ IF ArgsMissing(argv)
       THEN /\ stdout' = Append(stdout, "usage")
            /\ pc' = "done"
       ELSE /\ pc' = "read_csv"
            /\ UNCHANGED stdout
    /\ UNCHANGED <<error, argv, in_file, csv, df, DAYS, Y_MAX, day_i, series, ylim,
                   minor_yticks, out_written, read_count, write_count>>

(* parse_data, lines 27-34: a missing or malformed file raises *)
read_csv ==
    /\ pc = "read_csv"
    /\ read_count' = read_count + 1
    /\ \/ /\ pc' = LoadFailure.pc
          /\ error' = LoadFailure.error
          /\ UNCHANGED <<csv, df>>
       \/ /\ csv' = in_file
          /\ df' = LoadFrame(in_file)
          /\ pc' = "sort_index"
          /\ UNCHANGED error
    /\ UNCHANGED <<argv, in_file, DAYS, Y_MAX, day_i, series, ylim, minor_yticks,
                   stdout, out_written, write_count>>

(* parse_data, line 35 *)
do_sort_index ==
    /\ pc = "sort_index"
    /\ df' \in sort_index(df)
    /\ pc' = "filter"
    /\ UNCHANGED <<error, argv, in_file, csv, DAYS, Y_MAX, day_i, series, ylim,
                   minor_yticks, stdout, out_written, read_count, write_count>>

(* parse_data, lines 41-47, and the call of save_plot at line 91 *)
filter ==
    /\ pc = "filter"
    /\ df' = FilterRows(df)
    /\ pc' = "save_plot"
    /\ UNCHANGED <<error, argv, in_file, csv, DAYS, Y_MAX, day_i, series, ylim,
                   minor_yticks, stdout, out_written, read_count, write_count>>

(* save_plot, lines 51-58 *)
save_plot_begin ==
    /\ pc = "save_plot"
    /\ DAYS' = unique(Column(df, "weekday"))
    /\ Y_MAX' = YMaxOf(df)
    /\ day_i' = 1
    /\ pc' = "loop"
    /\ UNCHANGED <<error, argv, in_file, csv, df, series, ylim, minor_yticks,
                   stdout, out_written, read_count, write_count>>

(* save_plot, lines 59-63: one pass of the loop over DAYS *)
save_plot_day ==
    /\ pc = "loop"
    /\ day_i <= Len(DAYS)
    /\ series' = Append(series, DaySeries(df, DAYS[day_i]))
    /\ day_i' = day_i + 1
    /\ UNCHANGED <<pc, error, argv, in_file, csv, df, DAYS, Y_MAX, ylim, minor_yticks,
                   stdout, out_written, read_count, write_count>>

(* save_plot, lines 64-72: np.arange (and set_ylim) raise ValueError when  *)
(* Y_MAX is NaN                                                            *)
save_plot_axes ==
    /\ pc = "loop"
    /\ day_i > Len(DAYS)
    /\ IF Y_MAX = NaNf
       THEN /\ pc' = "raised"
            /\ error' = "ValueError"
            /\ UNCHANGED <<ylim, minor_yticks>>
       ELSE /\ minor_yticks' = arange5(Y_MAX)
            /\ ylim' = <<<<0, 1>>, Y_MAX>>
            /\ pc' = "savefig"
            /\ UNCHANGED error
    /\ UNCHANGED <<argv, in_file, csv, df, DAYS, Y_MAX, day_i, series,
                   stdout, out_written, read_count, write_count>>

(* save_plot, line 73, and the return of main: a path that cannot be       *)
(* written or an unsupported extension raises                              *)
savefig ==
    /\ pc = "savefig"
    /\ \/ /\ out_written' = TRUE
          /\ write_count' = write_count + 1
          /\ pc' = "done"
          /\ UNCHANGED error
       \/ /\ pc' = "raised"
          /\ error' = "IOError"
          /\ UNCHANGED <<out_written, write_count>>
    /\ UNCHANGED <<argv, in_file, csv, df, DAYS, Y_MAX, day_i, series, ylim,
                   minor_yticks, stdout, read_count>>

Next ==
    \/ main_args
    \/ read_csv
    \/ do_sort_index
    \/ filter
    \/ save_plot_begin
    \/ save_plot_day
    \/ save_plot_axes
    \/ savefig

Spec == Init /\ [][Next]_vars

(* the interpreter runs the script to its end *)
FairSpec == FewInit /\ [][Next]_vars /\ WF_vars(Next)

----------------------------------------------------------------------------
(* Properties *)

(* parse_data has returned its frame *)
Parsed ==
    /\ read_count = 1
    /\ pc \in {"save_plot", "loop", "savefig", "done", "raised"}
    /\ error # "ParserError"

(* the columns of the file a row of the frame still carries *)
Fields(r) == [opened_unix |-> r.opened_unix,
              solved_unix |-> r.solved_unix,
              solve_time_secs |-> r.solve_time_secs,
              weekday |-> r.weekday,
              cheated |-> r.cheated]

CountIn(rows, f) == Cardinality({i \in DOMAIN rows : Fields(rows[i]) = f})

InFile(P(_)) == \E i \in DOMAIN csv : P(csv[i])

C2_Discarded(r) == \/ r.solve_time_secs = NaN
                   \/ r.cheated
                   \/ r.solved_unix - r.opened_unix > 604800

C2_DiscardsExactly ==
    Parsed =>
        \A i \in DOMAIN csv :
            CountIn(df, Fields(csv[i])) =
                IF C2_Discarded(csv[i]) THEN 0 ELSE CountIn(csv, Fields(csv[i]))

(* C3: the result of parse_data is in non-decreasing order of the solved-at *)
(* datetime, whatever the order of the rows in the file.                   *)
C3_SortedBySolved ==
    Parsed =>
        \A i \in 1..(Len(df) - 1) :
            /\ DtLeq(df[i].Solved_datetime, df[i + 1].Solved_datetime)
            /\ df[i].solved_unix <= df[i + 1].solved_unix

C3_Witness ==
    /\ pc = "done" /\ argv >= 2
    /\ Len(df) = Len(csv) /\ Len(csv) >= 3
    /\ csv[1].solved_unix > csv[2].solved_unix
    /\ csv[2].solved_unix < csv[3].solved_unix

(* the rows of the frame with weekday day, as positions of the frame *)
DayPositions(day) == {j \in DOMAIN df : df[j].weekday = day}

(* the position in the frame of the i-th row of weekday day *)
NthOfDay(day, i) ==
    CHOOSE j \in DayPositions(day) :
        Cardinality({k \in DayPositions(day) : k <= j}) = i

RECURSIVE SumDurations(_)
SumDurations(S) ==
    IF S = {} THEN 0
    ELSE LET j == CHOOSE k \in S : TRUE
         IN  df[j].solve_time_secs + SumDurations(S \ {j})

(* mean, in minutes, of the durations of the rows at the positions S *)
MeanMinutes(S) == IF S = {} THEN NaNf
                  ELSE <<SumDurations(S), 60 * Cardinality(S)>>

(* rows of weekday day solved in (T - 56 days, T], T the solved time of row j *)
InSpan(day, j) ==
    {k \in DayPositions(day) :
        /\ df[k].solved_unix > df[j].solved_unix - 56 * 86400
        /\ df[k].solved_unix <= df[j].solved_unix}

PlottedPoints ==
    {<<s, i>> \in (DOMAIN series) \X (DOMAIN df) : i <= Len(series[s].points)}

(* C4 as stated: each plotted point of a weekday at solved time T is the   *)
(* mean of all rows of that weekday solved in (T - 56 days, T], rows with  *)
(* the same solved time that come later in the frame included.             *)
C4_MeanOfWholeSpan ==
    \A p \in PlottedPoints :
        LET day == series[p[1]].label
            j == NthOfDay(day, p[2])
        IN  /\ series[p[1]].points[p[2]].x = df[j].index
            /\ RatEq(series[p[1]].points[p[2]].y, MeanMinutes(InSpan(day, j)))

(* C4, amended: each plotted point of a weekday, for the row at position j *)
(* of the frame with solved time T, is the mean of the rows of that        *)
(* weekday solved in (T - 56 days, T] that are at or before position j: a  *)
(* row solved exactly 56 days before T is out, a row of another weekday is *)
(* out, and of the rows with the same solved time T only those not later   *)
(* in the frame are in.                                                    *)
C4_MeanOfTrailingSpan ==
    \A p \in PlottedPoints :
        LET day == series[p[1]].label
            j == NthOfDay(day, p[2])
        IN  /\ series[p[1]].points[p[2]].x = df[j].index
            /\ RatEq(series[p[1]].points[p[2]].y,
                     MeanMinutes({k \in InSpan(day, j) : k <= j}))

(* a run with two rows of one weekday solved at the same second with       *)
(* different durations, a row of that weekday exactly 56 days before them  *)
C4_Witness ==
    /\ pc = "done" /\ argv >= 2
    /\ \E i, j, k \in DOMAIN df :
        /\ i < j /\ j < k
        /\ df[i].weekday = df[j].weekday /\ df[j].weekday = df[k].weekday
        /\ df[j].solved_unix = df[k].solved_unix
        /\ df[j].solve_time_secs # df[k].solve_time_secs
        /\ df[i].solved_unix = df[k].solved_unix - 56 * 86400
    /\ \E s \in DOMAIN series : Len(series[s].points) = 3

(* C5: when no row passes the filter, save_plot still completes: with the  *)
(* input read and the output path writable, the run ends normally with no  *)
(* series drawn and the output file written.                               *)
C5_EmptyFrameCompletes ==
    (Parsed /\ df = <<>> /\ pc \in {"done", "raised"} /\ error # "IOError")
        => (pc = "done" /\ error = "" /\ series = <<>> /\ out_written)

(* C6: with fewer than two arguments main prints the usage and returns     *)
(* normally; nothing is read and nothing is written.                       *)
C6_UsageOnMissingArgs ==
    (argv < 2 /\ pc # "start") =>
        /\ pc = "done"
        /\ error = ""
        /\ stdout = <<"usage">>
        /\ read_count = 0 /\ csv = <<>> /\ df = <<>>
        /\ write_count = 0 /\ ~out_written /\ series = <<>>

C6_Witness ==
    argv = 1 /\ pc = "done" /\ stdout = <<"usage">>

(* the k-th smallest duration of the frame, by counting *)
KthDuration(k) ==
    CHOOSE x \in Range(Column(df, "solve_time_secs")) :
        /\ Cardinality({j \in DOMAIN df : df[j].solve_time_secs < x}) < k
        /\ k <= Cardinality({j \in DOMAIN df : df[j].solve_time_secs <= x})

(* 99th percentile of the durations of the frame, in minutes *)
Percentile99Minutes ==
    LET n == Len(df)
        lo == (99 * (n - 1)) \div 100 + 1
        hi == IF lo < n THEN lo + 1 ELSE lo
        fr == (99 * (n - 1)) % 100
    IN  <<(100 - fr) * KthDuration(lo) + fr * KthDuration(hi), 6000>>

Relabelled(w) == [i \in DOMAIN df |-> [df[i] EXCEPT !.weekday = w[i]]]

SeriesDrawn == \/ pc \in {"savefig", "done"} /\ read_count = 1
               \/ pc = "loop" /\ day_i > Len(DAYS)
               \/ pc = "raised" /\ error \in {"ValueError", "IOError"}

RECURSIVE TotalPoints(_)
TotalPoints(ss) ==
    IF ss = <<>> THEN 0 ELSE Len(Head(ss).points) + TotalPoints(Tail(ss))

(* C8: one series per distinct weekday of the frame, one point per row of  *)
(* that weekday, every point with a defined mean; the points of all series *)
(* are as many as the rows; one row of 300 s gives one series with one     *)
(* point at 5.0 minutes.                                                   *)
C8_SeriesShape ==
    SeriesDrawn =>
        /\ Len(series) = Cardinality({df[j].weekday : j \in DOMAIN df})
        /\ \A a, b \in DOMAIN series :
              series[a].label = series[b].label => a = b
        /\ \A a \in DOMAIN series :
              /\ Len(series[a].points) =
                    Cardinality(DayPositions(series[a].label))
              /\ Len(series[a].points) >= 1
              /\ \A i \in DOMAIN series[a].points :
                    series[a].points[i].y # NaNf
        /\ TotalPoints(series) = Len(df)
        /\ (Len(df) = 1 /\ df[1].solve_time_secs = 300) =>
              /\ Len(series) = 1
              /\ Len(series[1].points) = 1
              /\ RatEq(series[1].points[1].y, <<5, 1>>)

C8_Witness ==
    /\ pc = "done" /\ argv >= 2
    /\ Len(csv) = 1
    /\ Len(df) = 1 /\ df[1].solve_time_secs = 300
    /\ df[1].solved_unix - df[1].opened_unix = 10
    /\ Len(series) = 1

(* position of a label in the text of main, parse_data and save_plot *)
Stage(l) ==
    CASE l = "start" -> 0
      [] l = "read_csv" -> 1
      [] l = "sort_index" -> 2
      [] l = "filter" -> 3
      [] l = "save_plot" -> 4
      [] l = "loop" -> 5
      [] l = "savefig" -> 6
      [] OTHER -> 7

(* C9: a run goes once through load, filter, compute, render, write, exit: *)
(* no stage is entered twice or after a later one, the file is read and    *)
(* written at most once, the output is written only after parse_data has   *)
(* returned and every series has been computed, a failed load leaves main  *)
(* uncaught with nothing written, and every run ends, normally or with an  *)
(* uncaught error.                                                         *)
C9_OnePass ==
    /\ [](read_count <= 1 /\ write_count <= 1)
    /\ [](out_written =>
            /\ Parsed /\ error = "" /\ pc = "done"
            /\ Len(series) = Len(DAYS) /\ day_i = Len(DAYS) + 1
            /\ ylim # <<>>)
    /\ [](error = "ParserError" =>
            pc = "raised" /\ ~out_written /\ series = <<>> /\ df = <<>>)
    /\ [][\/ Stage(pc') > Stage(pc)
          \/ pc = "loop" /\ pc' = "loop" /\ day_i' = day_i + 1]_vars
    /\ <>(pc \in {"done", "raised"})

C9_Witness ==
    /\ pc = "done" /\ argv >= 2
    /\ out_written
    /\ Len(series) = 2

(* C10: the rows parse_data returns are rows of the file, each at most as  *)
(* often as the file has it, with opened_unix, solved_unix,                *)
(* solve_time_secs, weekday and cheated as read; save_plot leaves the      *)
(* frame as it received it.                                                *)
C10_RecordsImmutable ==
    /\ [](Parsed =>
            \A i \in DOMAIN df :
                /\ CountIn(df, Fields(df[i])) <= CountIn(csv, Fields(df[i]))
                /\ df[i].Solved_datetime = df[i].index)
    /\ [][(pc \in {"save_plot", "loop", "savefig"}) => (df' = df)]_vars

C10_Witness ==
    /\ pc = "done" /\ argv >= 2
    /\ Len(df) >= 2
    /\ Len(df) < Len(csv)

====
